---- MODULE Spec2Model ----
(***************************************************************************)
(* The remote console client of treasure_hunt.py (class MCRcon) together   *)
(* with the peer and the network it talks to.                              *)
(*                                                                         *)
(* Bytes are integers 0..255, byte strings are sequences of bytes, Python  *)
(* str values are sequences of code points.  One Tick is one second of the *)
(* SIGALRM timer armed by signal.alarm().                                  *)
(***************************************************************************)
EXTENDS Integers, Sequences, FiniteSets, TLC

\* ------------------------------------------------------------------ bounds
\* The timeout argument of MCRcon(...), in seconds (any positive integer).
Timeout == 2
\* Packets the peer sends in one run (besides flood packets).
MaxPkts == 3
\* Requests (LOGIN and COMMAND) the caller issues in one run.
MaxReq == 2
\* Characters of the payload of the frame that is written and read back.
MaxStr == 3
\* Rounds of the search loop of main (range(1000) in the source).
MaxTries == 2
\* Join and leave events given to calculate_play_time.
MaxEvents == 3
\* The latest time of an event, in seconds after the earliest.
MaxTime == 2

\* ------------------------------------------------------- struct / codecs
\* struct.pack("<i", i): four bytes, little-endian, two's complement.
pack_i(i) ==
    LET u == IF i >= 0 THEN i ELSE i + 2147483647 + 1   \* low 31 bits
        top == IF i >= 0 THEN 0 ELSE 128                 \* sign bit
    IN  << u % 256,
           (u \div 256) % 256,
           (u \div 65536) % 256,
           ((u \div 16777216) % 128) + top >>

\* struct.unpack("<i", b): b is a sequence of exactly four bytes.
unpack_i(b) ==
    LET low == b[1] + 256 * b[2] + 65536 * b[3] + 16777216 * (b[4] % 128)
    IN  IF b[4] >= 128 THEN (low - 2147483647) - 1 ELSE low

\* Python slice s[a:b] for 0 <= a (0-based, b exclusive, clipped).
Slice(s, a, b) ==
    LET hi == IF b > Len(s) THEN Len(s) ELSE b
    IN  IF hi <= a THEN << >> ELSE SubSeq(s, a + 1, hi)

\* Python slice s[-2:].
Last2(s) == IF Len(s) <= 2 THEN s ELSE SubSeq(s, Len(s) - 1, Len(s))

IsCont(b) == b >= 128 /\ b <= 191

\* One code point as UTF-8 (str.encode("utf8") of a one-character string).
encode_cp(c) ==
    IF c < 128 THEN << c >>
    ELSE IF c < 2048 THEN << 192 + (c \div 64), 128 + (c % 64) >>
    ELSE IF c < 65536 THEN
        << 224 + (c \div 4096), 128 + ((c \div 64) % 64), 128 + (c % 64) >>
    ELSE << 240 + (c \div 262144), 128 + ((c \div 4096) % 64),
            128 + ((c \div 64) % 64), 128 + (c % 64) >>

\* str.encode("utf8").
RECURSIVE encode(_)
encode(s) == IF s = << >> THEN << >> ELSE encode_cp(Head(s)) \o encode(Tail(s))

\* Number of bytes of the UTF-8 sequence that starts with lead byte b at the
\* head of byte string s; 0 when s does not start with a valid sequence.
SeqLen(s) ==
    LET b == s[1]
        c2 == Len(s) >= 2 /\ IsCont(s[2])
        c3 == Len(s) >= 3 /\ IsCont(s[3])
        c4 == Len(s) >= 4 /\ IsCont(s[4])
    IN  IF b < 128 THEN 1
        ELSE IF b >= 194 /\ b <= 223 THEN (IF c2 THEN 2 ELSE 0)
        ELSE IF b >= 224 /\ b <= 239 THEN
            (IF c2 /\ c3 /\ (b = 224 => s[2] >= 160) /\ (b = 237 => s[2] <= 159)
             THEN 3 ELSE 0)
        ELSE IF b >= 240 /\ b <= 244 THEN
            (IF c2 /\ c3 /\ c4 /\ (b = 240 => s[2] >= 144) /\ (b = 244 => s[2] <= 143)
             THEN 4 ELSE 0)
        ELSE 0

\* The code point of the valid UTF-8 sequence of n bytes at the head of s.
CodePoint(s, n) ==
    IF n = 1 THEN s[1]
    ELSE IF n = 2 THEN (s[1] - 192) * 64 + (s[2] - 128)
    ELSE IF n = 3 THEN (s[1] - 224) * 4096 + (s[2] - 128) * 64 + (s[3] - 128)
    ELSE (s[1] - 240) * 262144 + (s[2] - 128) * 4096 + (s[3] - 128) * 64 + (s[4] - 128)

\* bytes.decode("utf8"): [ok |-> TRUE, s |-> the string], or ok = FALSE where
\* Python raises UnicodeDecodeError.
RECURSIVE decode(_)
decode(b) ==
    IF b = << >> THEN [ok |-> TRUE, s |-> << >>]
    ELSE LET n == SeqLen(b)
         IN  IF n = 0 THEN [ok |-> FALSE, s |-> << >>]
             ELSE LET rest == decode(SubSeq(b, n + 1, Len(b)))
                  IN  [ok |-> rest.ok,
                       s |-> IF rest.ok THEN << CodePoint(b, n) >> \o rest.s ELSE << >>]

\* ------------------------------------------------------------ the state
VARIABLES
    socket,     \* self.socket: "None" or "sock" (a socket object)
    fd,         \* the OS socket behind self.socket: "none", "open", "closed"
    pc,         \* where the client is: "idle" (in the caller), "connected" (in
                \* connect(), before _send), "read_len" and "read_body" (inside
                \* _read), "select", "sleep"
    op,         \* the MCRcon call in progress or last made: "none", "connect", "command"
    length,     \* _read's length argument
    data,       \* _read's data
    in_data,    \* _send's in_data
    alarm,      \* seconds left on the SIGALRM timer, 0 when none is pending
    result,     \* how the last call ended: [st, val, err]
    block,      \* the with statement: "out" (not reached), "entering" (in
                \* __enter__), "in" (in the body), "left" (after __exit__),
                \* "failed" (__enter__ raised)
    exitHow,    \* how the with body was left: "none", "normal", "return", "raise"
    nreq,       \* requests written so far (the number of the latest request)
    nconn,      \* connections opened so far (the caller opens one)
    nclose,     \* socket.close() calls made so far
    lastSent,   \* the bytes of the latest socket.send
    peer,       \* the connection as the client's socket has it: "down" (none),
                \* "up", "fin" (the peer's close has arrived), "rst" (reset)
    pend,       \* numbers of the requests the peer has not answered
    resp,       \* the reply the peer sent last
    npeer,      \* packets the peer has sent so far
    wire,       \* what is on its way to the client, in order: segments of
                \* bytes, and FIN when the peer has closed its end
    rbuf        \* bytes received and not yet taken by socket.recv

netVars == << peer, pend, resp, npeer, wire, rbuf >>

clientVars == << socket, fd, pc, op, length, data, in_data, alarm, result, block,
                 exitHow, nreq, nconn, nclose, lastSent >>

rconVars == << clientVars, netVars >>

\* One request frame, written and read back (the framing of _send by itself).
VARIABLES
    f_pc,       \* "off", "start", "sent", "parsed"
    f_type,     \* out_type
    f_data,     \* out_data, a str
    f_sent,     \* the bytes given to socket.send
    f_back      \* what the response parsing of _send makes of those bytes

frameVars == << f_pc, f_type, f_data, f_sent, f_back >>

\* calculate_play_time(events) of playtimes.py.
VARIABLES
    events,             \* the events the loop has taken from its argument so far
    play_time,          \* play_time, without the default: player -> seconds
    active_sessions     \* active_sessions: player -> join time

playVars == << events, play_time, active_sessions >>

\* main(log_file) of treasure_hunt.py and the world it acts on.  The session
\* it uses is one whose command() returns the server's reply to the command,
\* or raises.
VARIABLES
    h_pc,           \* where main is: "off" (not run), "start", ..., and how it
                    \* ended: "skipped", "noplayers", "notfound", "complete", "error"
    list_reply,     \* the server's reply to the list command
    online_players, \* online_players
    tries,          \* rounds of for _ in range(1000) begun
    x, y, z,        \* x, y, z of find_treasure_spot and of main
    location,       \* what find_treasure_spot returned: "unset", "None", << x, y, z >>
    loaded,         \* the position (x, -, z) is loaded on the server
    seen,           \* the block tests of this scan: height -> the block tested as air
    ntests,         \* block tests made by this call of find_treasure_spot
    chest,          \* the block at (x, y, z): "none" (no chest), "full", "empty"
    detected,       \* the chest test before the removal: "unset", "yes", "no"
    removed,        \* what setblock ... minecraft:air replaced: "unset", "none", "full", "empty"
    tape_i,         \* the place in minute_tape
    waits,          \* time.sleep(60) calls returned
    cmds            \* the setblock and tellraw commands issued, in order

huntVars == << h_pc, list_reply, online_players, tries, x, y, z, location, loaded, seen,
               ntests, chest, detected, removed, tape_i, waits, cmds >>

\* What the remote console client leaves alone.
otherVars == << frameVars, playVars, huntVars >>

\* RCON_PASSWORD = "password", as code points.
Password == << 112, 97, 115, 115, 119, 111, 114, 100 >>
\* The command string the caller issues: "l" followed by e-acute.
Commands == { << 108, 233 >> }

NoResult == [st |-> "none", val |-> << >>, err |-> ""]
Returned(v) == [st |-> "return", val |-> v, err |-> ""]
Raised(e) == [st |-> "raise", val |-> << >>, err |-> e]

NoResp == [req |-> 0, data |-> << >>, badpad |-> FALSE, idm1 |-> FALSE]

\* All of the state.
vars == << rconVars, otherVars >>

RconInit ==
    /\ socket = "None" /\ fd = "none"
    /\ pc = "idle" /\ op = "none"
    /\ length = 0 /\ data = << >> /\ in_data = << >>
    /\ alarm = 0
    /\ result = NoResult
    /\ block = "out" /\ exitHow = "none"
    /\ nreq = 0 /\ nconn = 0 /\ nclose = 0 /\ lastSent = << >>
    /\ peer = "down" /\ pend = << >> /\ resp = NoResp /\ npeer = 0
    /\ wire = << >> /\ rbuf = << >>

\* ------------------------------------------------------------ the client
\* A call ends and control is back in the caller.  __enter__ returns self only
\* when connect() returned; an exception out of connect() leaves the with
\* statement without __exit__ being run.
Leave(res) ==
    /\ pc' = "idle"
    /\ result' = res
    /\ block' = IF block = "entering"
                THEN (IF res.st = "return" THEN "in" ELSE "failed")
                ELSE block
    /\ length' = 0 /\ data' = << >> /\ in_data' = << >>

\* _read(n) without its signal.alarm(self.timeout).
read_noalarm(n) ==
    /\ alarm' = alarm
    /\ data' = << >>
    /\ length' = n

\* _read(n) up to its first socket.recv: signal.alarm(self.timeout); data = b"".
read(n) ==
    /\ alarm' = Timeout
    /\ data' = << >>
    /\ length' = n

\* The request packet without its two null bytes.
out_payload_noterm(out_type, out_data) ==
    pack_i(0) \o pack_i(out_type) \o encode(out_data)

\* The request packet _send writes.
out_payload(out_type, out_data) ==
    pack_i(0) \o pack_i(out_type) \o encode(out_data) \o << 0, 0 >>

Frame(out_type, out_data) ==
    pack_i(Len(out_payload(out_type, out_data))) \o out_payload(out_type, out_data)

\* _send on a session with a socket, up to the first socket.recv.
send(out_type, out_data) ==
    IF peer = "rst"
    THEN \* socket.send raises on a reset connection
         /\ Leave(Raised("ConnectionResetError"))
         /\ UNCHANGED << alarm, nreq, lastSent, pend >>
    ELSE /\ lastSent' = Frame(out_type, out_data)
         /\ nreq' = nreq + 1
         /\ pend' = Append(pend, nreq + 1)
         /\ in_data' = << >>
         /\ pc' = "read_len"
         /\ read(4)
         /\ result' = NoResult
         /\ UNCHANGED block

\* What _send makes of one packet body: the sanity checks and the decoding.
Packet(in_payload) ==
    IF Len(in_payload) < 8
    THEN [err |-> "struct.error", s |-> << >>]
    ELSE LET in_id == unpack_i(SubSeq(in_payload, 1, 4))
             in_data_partial == Slice(in_payload, 8, Len(in_payload) - 2)
             in_padding == Last2(in_payload)
             text == decode(in_data_partial)
         IN  IF in_padding # << 0, 0 >> THEN [err |-> "Incorrect padding", s |-> << >>]
             ELSE IF in_id = -1 THEN [err |-> "Login failed", s |-> << >>]
             ELSE IF ~text.ok THEN [err |-> "UnicodeDecodeError", s |-> << >>]
             ELSE [err |-> "", s |-> text.s]

\* _send once _read(in_length) has returned in_payload: raise, or record the
\* response and go on to the readiness poll.
GotPacket(in_payload) ==
    LET p == Packet(in_payload)
    IN  /\ alarm' = 0
        /\ IF p.err # ""
           THEN Leave(Raised(p.err))
           ELSE /\ in_data' = in_data \o p.s
                /\ pc' = "select"
                /\ length' = 0 /\ data' = << >>
                /\ UNCHANGED << result, block >>

\* _read: socket.recv(length - len(data)) returns the bytes that are there, at
\* most as many as asked for; the loop ends when all of them have come.
Recv ==
    /\ pc \in {"read_len", "read_body"}
    /\ peer # "rst"
    /\ rbuf # << >>
    /\ LET want == length - Len(data)
           n == IF Len(rbuf) < want THEN Len(rbuf) ELSE want
           got == data \o SubSeq(rbuf, 1, n)
       IN  /\ rbuf' = SubSeq(rbuf, n + 1, Len(rbuf))
           /\ IF Len(got) < length
              THEN /\ data' = got
                   /\ UNCHANGED << pc, length, in_data, alarm, result, block >>
              ELSE IF pc = "read_body"
              THEN GotPacket(got)
              ELSE IF unpack_i(got) > 0
              THEN /\ pc' = "read_body"
                   /\ read(unpack_i(got))
                   /\ UNCHANGED << in_data, result, block >>
              ELSE \* _read(in_length) with in_length <= 0 returns b"" at once
                   GotPacket(<< >>)
    /\ UNCHANGED << socket, fd, op, exitHow, nreq, nconn, nclose, lastSent,
                    peer, pend, resp, npeer, wire >>
    /\ UNCHANGED otherVars

\* _read: the peer has closed its end and everything it sent has been read, so
\* socket.recv returns b"" and the loop goes round with data unchanged.
RecvEOF ==
    /\ pc \in {"read_len", "read_body"}
    /\ peer = "fin" /\ rbuf = << >>
    /\ data' = data \o << >>
    /\ UNCHANGED << socket, fd, pc, op, length, in_data, alarm, result, block, exitHow,
                    nreq, nconn, nclose, lastSent, netVars >>
    /\ UNCHANGED otherVars

\* _read: the connection was reset, socket.recv raises; signal.alarm(0) is not
\* reached.
RecvReset ==
    /\ pc \in {"read_len", "read_body"}
    /\ peer = "rst"
    /\ Leave(Raised("ConnectionResetError"))
    /\ UNCHANGED << socket, fd, op, alarm, exitHow, nreq, nconn, nclose, lastSent, netVars >>
    /\ UNCHANGED otherVars

\* select.select([self.socket], [], [], 0): the socket is readable when a byte,
\* an end of file or an error is waiting.
Readable ==
    \/ rbuf # << >>
    \/ peer = "rst"
    \/ peer = "fin"

\* _send after a packet: poll, then read another packet or return in_data.
\* connect() drops the value; command() sleeps before it returns it.
Select ==
    /\ pc = "select"
    /\ IF Readable
       THEN /\ pc' = "read_len"
            /\ read(4)
            /\ UNCHANGED << in_data, result, block >>
       ELSE IF op = "command"
       THEN /\ pc' = "sleep"
            /\ UNCHANGED << length, data, in_data, alarm, result, block >>
       ELSE /\ Leave(Returned(<< >>))
            /\ UNCHANGED alarm
    /\ UNCHANGED << socket, fd, op, exitHow, nreq, nconn, nclose, lastSent, netVars >>
    /\ UNCHANGED otherVars

\* command() after time.sleep(0.003): return result.
CommandReturn ==
    /\ pc = "sleep"
    /\ Leave(Returned(in_data))
    /\ UNCHANGED << socket, fd, op, alarm, exitHow, nreq, nconn, nclose, lastSent, netVars >>
    /\ UNCHANGED otherVars

\* One second passes with the alarm pending, with a timeout_handler that
\* returns instead of raising.
Tick_quiet ==
    /\ alarm > 0
    /\ alarm' = alarm - 1
    /\ UNCHANGED << socket, fd, pc, op, length, data, in_data, result, block, exitHow,
                    nreq, nconn, nclose, lastSent, netVars >>
    /\ UNCHANGED otherVars

\* One second passes with the alarm pending.  When it runs out, timeout_handler
\* raises in whatever the process is doing: inside a call the call raises, in
\* the caller the caller gets the exception.
Tick ==
    /\ alarm > 0
    /\ alarm' = alarm - 1
    /\ IF alarm = 1
       THEN /\ Leave(Raised("Connection timeout error"))
            /\ op' = IF pc = "idle" THEN "none" ELSE op
       ELSE UNCHANGED << pc, op, length, data, in_data, result, block >>
    /\ UNCHANGED << socket, fd, exitHow, nreq, nconn, nclose, lastSent, netVars >>
    /\ UNCHANGED otherVars

\* A connection is gone: nothing of it is left at the peer or on the way.
NetDown ==
    /\ peer' = "down" /\ pend' = << >> /\ resp' = NoResp
    /\ wire' = << >> /\ rbuf' = << >>

\* connect() up to _send: a new socket object and socket.connect(), which
\* raises when nothing accepts the connection.
connect ==
    /\ socket' = "sock" /\ fd' = "open"
    /\ nconn' = nconn + 1
    /\ op' = "connect"
    /\ length' = 0 /\ data' = << >> /\ in_data' = << >>
    /\ \E accepted \in BOOLEAN :
          IF accepted
          THEN /\ pc' = "connected"
               /\ result' = NoResult
               /\ peer' = "up" /\ pend' = << >> /\ resp' = NoResp
               /\ wire' = << >> /\ rbuf' = << >>
          ELSE /\ pc' = "idle"
               /\ result' = Raised("ConnectionRefusedError")
               /\ NetDown

\* with MCRcon(...) as rcon: __enter__ calls connect(); the body is entered
\* only when __enter__ returns.
Enter ==
    /\ pc = "idle" /\ block = "out"
    /\ nconn = 0 /\ nreq < MaxReq
    /\ connect
    /\ block' = IF pc' = "connected" THEN "entering" ELSE "failed"
    /\ UNCHANGED << alarm, exitHow, nreq, nclose, lastSent, npeer >>
    /\ UNCHANGED otherVars

\* connect(): self._send(3, self.password).
Login ==
    /\ pc = "connected"
    /\ send(3, Password)
    /\ UNCHANGED << socket, fd, op, exitHow, nconn, nclose, peer, resp, npeer, wire, rbuf >>
    /\ UNCHANGED otherVars

\* command(command) with a _send that lacks the check for a socket.
Command_nocheck ==
    /\ pc = "idle" /\ block # "failed" /\ nreq < MaxReq
    /\ op' = "command"
    /\ \E c \in Commands : send(2, c)
    /\ UNCHANGED << socket, fd, exitHow, nconn, nclose, peer, resp, npeer, wire, rbuf >>
    /\ UNCHANGED otherVars

\* command(command): self._send(2, command); without a socket _send raises
\* before it touches the network.
Command ==
    /\ pc = "idle" /\ block # "failed" /\ nreq < MaxReq
    /\ op' = "command"
    /\ IF socket = "None"
       THEN /\ Leave(Raised("Must connect before sending data"))
            /\ UNCHANGED << alarm, nreq, lastSent, pend >>
       ELSE \E c \in Commands : send(2, c)
    /\ UNCHANGED << socket, fd, exitHow, nconn, nclose, peer, resp, npeer, wire, rbuf >>
    /\ UNCHANGED otherVars

\* disconnect() without its check for a socket.
disconnect_always ==
    fd' = "closed" /\ nclose' = nclose + 1 /\ socket' = "None"

\* disconnect() without its self.socket = None.
disconnect_keeps ==
    IF socket # "None"
    THEN fd' = "closed" /\ nclose' = nclose + 1 /\ UNCHANGED socket
    ELSE UNCHANGED << socket, fd, nclose >>

\* disconnect(): close the socket, if there is one, and forget it.
disconnect ==
    IF socket # "None"
    THEN fd' = "closed" /\ nclose' = nclose + 1 /\ socket' = "None"
    ELSE UNCHANGED << socket, fd, nclose >>

\* rcon.disconnect() called directly.
Disconnect ==
    /\ pc = "idle" /\ block # "failed"
    /\ disconnect
    /\ IF fd' = "closed" THEN NetDown ELSE UNCHANGED << peer, pend, resp, wire, rbuf >>
    /\ UNCHANGED << pc, op, length, data, in_data, alarm, result, block, exitHow,
                    nreq, nconn, lastSent, npeer >>
    /\ UNCHANGED otherVars

\* __exit__(type, value, tb): self.disconnect().
exit == disconnect

\* Control leaves the with body: the body ran to its end, returned early, or
\* an exception (of a command, or of the body's own code) left it.
Exit ==
    /\ pc = "idle" /\ block = "in"
    /\ \E how \in {"normal", "return", "raise"} : exitHow' = how
    /\ block' = "left"
    /\ exit
    /\ IF fd' = "closed" THEN NetDown ELSE UNCHANGED << peer, pend, resp, wire, rbuf >>
    /\ UNCHANGED << pc, op, length, data, in_data, alarm, result, nreq, nconn,
                    lastSent, npeer >>
    /\ UNCHANGED otherVars

\* ------------------------------------------------- the peer and the network
\* The character by which the peer's reply to request r names that request:
\* a letter for an odd r, a two-byte character for an even r.
Char(r) == IF r % 2 = 1 THEN 96 + r ELSE 232 + r

\* The request a character of a decoded reply names.
ReqOf(c) == IF c < 128 THEN c - 96 ELSE c - 232

\* The packets the peer may send in reply to request r: a well-formed one,
\* one with a bad terminator, and one with correlation id -1 (and a payload
\* that is no UTF-8).
PktKinds(r) ==
    { [id |-> 0, pad |-> << 0, 0 >>, payload |-> encode(<< Char(r) >>)],
      [id |-> 0, pad |-> << 0, 1 >>, payload |-> encode(<< Char(r) >>)],
      [id |-> -1, pad |-> << 0, 0 >>, payload |-> << 195 >>] }

\* A response packet on the wire: length, id, kind, payload, terminator.
PktBytes(k) ==
    LET body == pack_i(k.id) \o pack_i(0) \o k.payload \o k.pad
    IN  pack_i(Len(body)) \o body

\* Offsets at which the network may cut a packet in two segments: inside the
\* length field, and inside the body.
SplitAt == {2, 9}

\* The peer's close on its way to the client (no byte string).
FIN == << 256 >>

\* The segments in which the packets ks travel: each packet whole, or packet
\* cut[1] cut in two at offset cut[2] (the network cuts the first packet of
\* a reply, or none).
RECURSIVE Segments(_, _, _)
Segments(ks, cut, i) ==
    IF i > Len(ks) THEN << >>
    ELSE LET b == PktBytes(ks[i])
         IN  (IF cut[1] = i
              THEN << SubSeq(b, 1, cut[2]), SubSeq(b, cut[2] + 1, Len(b)) >>
              ELSE << b >>) \o Segments(ks, cut, i + 1)

RECURSIVE Payload(_)
Payload(ks) == IF ks = << >> THEN << >> ELSE Head(ks).payload \o Payload(Tail(ks))

\* The peer answers the oldest request it has not answered: one packet or
\* more, after which it may close its end, or no packet and it closes its
\* end.  What it sends is on its way from then on; when it arrives is up to
\* the network.
PeerReply ==
    /\ peer = "up" /\ pend # << >>
    /\ \A i \in 1..Len(wire) : wire[i] # FIN
    /\ LET r == Head(pend)
       IN  \E n \in 0..(MaxPkts - npeer) : \E ks \in [1..n -> PktKinds(r)] :
           \E cut \in {<< 0, 0 >>} \cup ({1} \X SplitAt), fin \in BOOLEAN :
              /\ n = 0 => (fin /\ cut = << 0, 0 >>)
              /\ resp' = [req |-> r,
                          data |-> Payload(ks),
                          badpad |-> \E i \in 1..n : ks[i].pad # << 0, 0 >>,
                          idm1 |-> \E i \in 1..n : ks[i].id = -1]
              /\ wire' = wire \o Segments(ks, cut, 1) \o (IF fin THEN << FIN >> ELSE << >>)
              /\ npeer' = npeer + n
    /\ pend' = Tail(pend)
    /\ UNCHANGED << clientVars, peer, rbuf >>
    /\ UNCHANGED otherVars

\* The peer makes a further well-formed, empty packet available just as the
\* client polls.
PeerFlood ==
    /\ peer = "up" /\ pc = "select"
    /\ wire = << >> /\ rbuf = << >>
    /\ rbuf' = PktBytes([id |-> 0, pad |-> << 0, 0 >>, payload |-> << >>])
    /\ UNCHANGED << clientVars, peer, pend, resp, npeer, wire >>
    /\ UNCHANGED otherVars

\* The connection is reset (RST): what was on the way is lost.
PeerReset ==
    /\ peer \in {"up", "fin"}
    /\ peer' = "rst"
    /\ wire' = << >> /\ rbuf' = << >>
    /\ UNCHANGED << clientVars, pend, resp, npeer >>
    /\ UNCHANGED otherVars

\* The next segment, or the peer's close, arrives at the client's socket.
Deliver ==
    /\ wire # << >>
    /\ IF Head(wire) = FIN
       THEN peer' = "fin" /\ UNCHANGED rbuf
       ELSE rbuf' = rbuf \o Head(wire) /\ UNCHANGED peer
    /\ wire' = Tail(wire)
    /\ UNCHANGED << clientVars, pend, resp, npeer >>
    /\ UNCHANGED otherVars

\* ------------------------------------------------------ one request frame
\* Characters a payload is made of: NUL, a, e-acute, the euro sign and an
\* emoji (1, 1, 2, 3 and 4 bytes in UTF-8).
Chars == {0, 97, 233, 8364, 128512}

\* The strings of at most n characters.
Strings(n) == UNION { [1..k -> Chars] : k \in 0..n }

FrameOff ==
    /\ f_pc = "off" /\ f_type = 0 /\ f_data = << >> /\ f_sent = << >> /\ f_back = << >>

\* _send(out_type, out_data) is called with LOGIN (3) or COMMAND (2) and a str.
FrameInit ==
    /\ f_pc = "start"
    /\ f_type \in {2, 3}
    /\ f_data \in Strings(MaxStr)
    /\ f_sent = << >> /\ f_back = << >>

\* _send writes the request.
FrameSend ==
    /\ f_pc = "start"
    /\ f_sent' = Frame(f_type, f_data)
    /\ f_pc' = "sent"
    /\ UNCHANGED << f_type, f_data, f_back, rconVars, playVars, huntVars >>

\* The bytes are read the way _send reads a response packet: four bytes of
\* length, that many bytes of body, then id, kind, payload and padding.
FrameParse ==
    /\ f_pc = "sent"
    /\ LET in_length == unpack_i(Slice(f_sent, 0, 4))
           in_payload == Slice(f_sent, 4, 4 + in_length)
       IN  f_back' = [in_length |-> in_length,
                      rest |-> Len(f_sent) - 4 - Len(in_payload),
                      in_id |-> unpack_i(Slice(in_payload, 0, 4)),
                      in_type |-> unpack_i(Slice(in_payload, 4, 8)),
                      in_padding |-> Last2(in_payload),
                      err |-> Packet(in_payload).err,
                      in_data_partial |-> Packet(in_payload).s]
    /\ f_pc' = "parsed"
    /\ UNCHANGED << f_type, f_data, f_sent, rconVars, playVars, huntVars >>

FrameNext == FrameSend \/ FrameParse

\* ------------------------------------------------- calculate_play_time
Players == {"p1", "p2"}

NoPlayers == [q \in {} |-> 0]

PlayInit ==
    /\ events = << >> /\ play_time = NoPlayers /\ active_sessions = NoPlayers

\* d[k] = v of a dict.
Put(d, k, v) == [q \in (DOMAIN d) \cup {k} |-> IF q = k THEN v ELSE d[q]]

\* d.pop(k) of a dict that has k: the dict that is left.
Pop(d, k) == [q \in (DOMAIN d) \ {k} |-> d[q]]

\* play_time[player] of the defaultdict(timedelta).
PlayTimeOf(d, player) == IF player \in DOMAIN d THEN d[player] ELSE 0

\* One round of the loop of calculate_play_time, with active_sessions[player]
\* read and left in place instead of popped.
calculate_play_time_nopop ==
    /\ Len(events) < MaxEvents
    /\ \E event_time \in 0..MaxTime, player \in Players, action \in {"joined", "left"} :
          /\ events' = Append(events, [t |-> event_time, player |-> player, action |-> action])
          /\ IF action = "joined"
             THEN /\ active_sessions' = Put(active_sessions, player, event_time)
                  /\ UNCHANGED play_time
             ELSE IF action = "left" /\ player \in DOMAIN active_sessions
             THEN LET join_time == active_sessions[player]
                      delta == event_time - join_time
                  IN  /\ UNCHANGED active_sessions
                      /\ play_time' = Put(play_time, player, PlayTimeOf(play_time, player) + delta)
             ELSE UNCHANGED << play_time, active_sessions >>
    /\ UNCHANGED << rconVars, frameVars, huntVars >>

\* One round of the loop of calculate_play_time: the next event of events.
calculate_play_time ==
    /\ Len(events) < MaxEvents
    /\ \E event_time \in 0..MaxTime, player \in Players, action \in {"joined", "left"} :
          /\ events' = Append(events, [t |-> event_time, player |-> player, action |-> action])
          /\ IF action = "joined"
             THEN /\ active_sessions' = Put(active_sessions, player, event_time)
                  /\ UNCHANGED play_time
             ELSE IF action = "left" /\ player \in DOMAIN active_sessions
             THEN LET join_time == active_sessions[player]
                      delta == event_time - join_time
                  IN  /\ active_sessions' = Pop(active_sessions, player)
                      /\ play_time' = Put(play_time, player, PlayTimeOf(play_time, player) + delta)
             ELSE UNCHANGED << play_time, active_sessions >>
    /\ UNCHANGED << rconVars, frameVars, huntVars >>

PlayNext == calculate_play_time

\* ------------------------------------------------------- the treasure hunt
TREASURE_MAX_DIST == 5000
TREASURE_DEAD_ZONE == 1000
TREASURE_MAX_HEIGHT == 70
TREASURE_MIN_HEIGHT == -50
WATER_LEVEL == 62

\* minute_tape, with 0 for None.
minute_tape == << 0, 0, 0, 0, 0, 5, 0, 3, 2, 1 >>

NoTests == [h \in {} |-> TRUE]

HuntOff ==
    /\ h_pc = "off" /\ list_reply = << >> /\ online_players = << >>
    /\ tries = 0 /\ x = 0 /\ y = 0 /\ z = 0
    /\ location = "unset" /\ loaded = FALSE /\ seen = NoTests /\ ntests = 0
    /\ chest = "none" /\ detected = "unset" /\ removed = "unset"
    /\ tape_i = 0 /\ waits = 0 /\ cmds = << >>

\* main is called.
HuntInit ==
    /\ h_pc = "start" /\ list_reply = << >> /\ online_players = << >>
    /\ tries = 0 /\ x = 0 /\ y = 0 /\ z = 0
    /\ location = "unset" /\ loaded = FALSE /\ seen = NoTests /\ ntests = 0
    /\ chest = "none" /\ detected = "unset" /\ removed = "unset"
    /\ tape_i = 0 /\ waits = 0 /\ cmds = << >>

\* " players online: ", the fixed text of the pattern of list_players.
PlayersOnline ==
    << 32, 112, 108, 97, 121, 101, 114, 115, 32, 111, 110, 108, 105, 110, 101, 58, 32 >>

\* ", "
CommaSpace == << 44, 32 >>

\* The server's reply to list with n players online (n a digit) and their
\* names: "There are n of a max of 20 players online: names".
ListReply(n, names) ==
    << 84, 104, 101, 114, 101, 32, 97, 114, 101, 32 >> \o << 48 + n >>
    \o << 32, 111, 102, 32, 97, 32, 109, 97, 120, 32, 111, 102, 32, 50, 48 >>
    \o PlayersOnline \o names

\* "There are 0/20 players online:", the reply of older servers.
OldListReply ==
    << 84, 104, 101, 114, 101, 32, 97, 114, 101, 32, 48, 47, 50, 48, 32, 112, 108,
       97, 121, 101, 114, 115, 32, 111, 110, 108, 105, 110, 101, 58 >>

\* The replies that report no player online.
ZeroReplies == { ListReply(0, << >>), OldListReply }

\* Replies to list: nobody, "Al", "Al, Bo", and nobody in the older form.
ListReplies ==
    ZeroReplies \cup { ListReply(1, << 65, 108 >>),
                       ListReply(2, << 65, 108 >> \o CommaSpace \o << 66, 111 >>) }

\* The text up to the first line feed ('.' of a pattern matches no line feed).
RECURSIVE Line(_)
Line(text) ==
    IF text = << >> \/ Head(text) = 10 THEN << >> ELSE << Head(text) >> \o Line(Tail(text))

\* The pattern \d+ players online: (.*) matches with its fixed text at m.
MatchAt(text, m) ==
    /\ m >= 2 /\ m + Len(PlayersOnline) - 1 <= Len(text)
    /\ text[m - 1] \in 48..57
    /\ SubSeq(text, m, m + Len(PlayersOnline) - 1) = PlayersOnline

\* re.search(r"\d+ players online: (.*)", response): group(1) of the leftmost
\* match, or no match.
Search(text) ==
    LET ms == { m \in 1..Len(text) : MatchAt(text, m) }
    IN  IF ms = {} THEN [match |-> FALSE, group |-> << >>]
        ELSE LET m == CHOOSE k \in ms : \A j \in ms : k <= j
             IN  [match |-> TRUE,
                  group |-> Line(SubSeq(text, m + Len(PlayersOnline), Len(text)))]

\* The first place at which sep occurs in str, 0 when it does not.
Find(str, sep) ==
    LET at == { i \in 1..(Len(str) - Len(sep) + 1) : SubSeq(str, i, i + Len(sep) - 1) = sep }
    IN  IF at = {} THEN 0 ELSE CHOOSE i \in at : \A j \in at : i <= j

\* str.split(sep).
RECURSIVE Split(_, _)
Split(str, sep) ==
    LET i == Find(str, sep)
    IN  IF i = 0 THEN << str >>
        ELSE << SubSeq(str, 1, i - 1) >> \o Split(SubSeq(str, i + Len(sep), Len(str)), sep)

\* list_players(rcon), given the response of rcon.command("list").
players_of(response) ==
    IF ~Search(response).match THEN << >> ELSE Split(Search(response).group, CommaSpace)

\* A command issued: its kind, its text, the minutes it announces (0 when
\* none) and the number of one-minute sleeps made before it.
Cmd(cmd, text, n) == [cmd |-> cmd, text |-> text, n |-> n, at |-> waits]

\* main up to the with statement: skip the hunt, or connect.
main_start ==
    /\ h_pc = "start"
    /\ \E skip \in BOOLEAN, connected \in BOOLEAN :
          h_pc' = IF skip THEN "skipped" ELSE IF connected THEN "list" ELSE "error"
    /\ UNCHANGED << list_reply, online_players, tries, x, y, z, location, loaded, seen,
                    ntests, chest, detected, removed, tape_i, waits, cmds >>
    /\ UNCHANGED << rconVars, frameVars, playVars >>

\* online_players = list_players(rcon); return when there are none.
list_players ==
    /\ h_pc = "list"
    /\ \E response \in ListReplies :
          /\ list_reply' = response
          /\ online_players' = players_of(response)
          /\ h_pc' = IF Len(players_of(response)) = 0 THEN "noplayers" ELSE "loop"
    /\ UNCHANGED << tries, x, y, z, location, loaded, seen,
                    ntests, chest, detected, removed, tape_i, waits, cmds >>
    /\ UNCHANGED << rconVars, frameVars, playVars >>

\* What random.randint(-distance_range, distance_range) is taken to return:
\* the ends of the range and 0.
RandCoord ==
    LET distance_range == TREASURE_MAX_DIST - TREASURE_DEAD_ZONE
    IN  { -distance_range, 0, distance_range }

\* x += TREASURE_DEAD_ZONE * (1 if x > 0 else -1)
Coord(r) == r + TREASURE_DEAD_ZONE * (IF r > 0 THEN 1 ELSE -1)

\* The next round of the search loop: find_treasure_spot draws x, y and z.
\* Whether the position is loaded, and what its blocks are, is the world's;
\* it stays as it is during the scan.
find_treasure_spot ==
    /\ h_pc = "loop" /\ tries < MaxTries
    /\ tries' = tries + 1
    /\ \E rx \in RandCoord, rz \in RandCoord,
          ry \in (-TREASURE_MIN_HEIGHT)..TREASURE_MAX_HEIGHT, ld \in BOOLEAN :
          /\ x' = Coord(rx) /\ y' = ry /\ z' = Coord(rz)
          /\ loaded' = ld
    /\ seen' = NoTests /\ ntests' = 0 /\ location' = "unset"
    /\ h_pc' = "first"
    /\ UNCHANGED << list_reply, online_players, chest, detected, removed, tape_i, waits, cmds >>
    /\ UNCHANGED << rconVars, frameVars, playVars >>

\* The search loop has used up its rounds.
not_found ==
    /\ h_pc = "loop" /\ tries = MaxTries
    /\ h_pc' = "notfound"
    /\ UNCHANGED << list_reply, online_players, tries, x, y, z, location, loaded, seen,
                    ntests, chest, detected, removed, tape_i, waits, cmds >>
    /\ UNCHANGED << rconVars, frameVars, playVars >>

\* test_for_block(rcon, x, y, z, "minecraft:air") on a loaded position gives
\* air: the block is as it was when it was tested before.
TestAir(air) ==
    /\ y \in DOMAIN seen => air = seen[y]
    /\ seen' = Put(seen, y, air)
    /\ ntests' = ntests + 1

\* find_treasure_spot returns None.
ReturnNone ==
    /\ location' = "None"
    /\ h_pc' = "loop"

\* find_treasure_spot: the first test; PositionNotLoaded gives None.
scan_first ==
    /\ h_pc = "first"
    /\ IF ~loaded
       THEN /\ ntests' = ntests + 1
            /\ ReturnNone
            /\ UNCHANGED seen
       ELSE \E air \in BOOLEAN :
               /\ TestAir(air)
               /\ h_pc' = IF air THEN "down" ELSE "up"
               /\ UNCHANGED location
    /\ UNCHANGED << list_reply, online_players, tries, x, y, z, loaded,
                    chest, detected, removed, tape_i, waits, cmds >>
    /\ UNCHANGED << rconVars, frameVars, playVars >>

\* find_treasure_spot scanning down, without the y += 1 after the loop.
scan_down_noinc ==
    /\ h_pc = "down"
    /\ \E air \in BOOLEAN :
          /\ TestAir(air)
          /\ IF air
             THEN /\ y' = y - 1
                  /\ IF y - 1 < -TREASURE_MIN_HEIGHT
                     THEN ReturnNone
                     ELSE UNCHANGED << location, h_pc >>
             ELSE /\ y' = y
                  /\ location' = << x, y, z >>
                  /\ h_pc' = "biome"
    /\ UNCHANGED << list_reply, online_players, tries, x, z, loaded,
                    chest, detected, removed, tape_i, waits, cmds >>
    /\ UNCHANGED << rconVars, frameVars, playVars >>

\* find_treasure_spot scanning down: one test of the while loop.
scan_down ==
    /\ h_pc = "down"
    /\ \E air \in BOOLEAN :
          /\ TestAir(air)
          /\ IF air
             THEN /\ y' = y - 1
                  /\ IF y - 1 < -TREASURE_MIN_HEIGHT
                     THEN ReturnNone
                     ELSE UNCHANGED << location, h_pc >>
             ELSE /\ y' = y + 1
                  /\ location' = << x, y + 1, z >>
                  /\ h_pc' = "biome"
    /\ UNCHANGED << list_reply, online_players, tries, x, z, loaded,
                    chest, detected, removed, tape_i, waits, cmds >>
    /\ UNCHANGED << rconVars, frameVars, playVars >>

\* find_treasure_spot scanning up: one test of the while loop.
scan_up ==
    /\ h_pc = "up"
    /\ \E air \in BOOLEAN :
          /\ TestAir(air)
          /\ IF ~air
             THEN /\ y' = y + 1
                  /\ IF y + 1 > TREASURE_MAX_HEIGHT
                     THEN ReturnNone
                     ELSE UNCHANGED << location, h_pc >>
             ELSE /\ y' = y
                  /\ location' = << x, y, z >>
                  /\ h_pc' = "biome"
    /\ UNCHANGED << list_reply, online_players, tries, x, z, loaded,
                    chest, detected, removed, tape_i, waits, cmds >>
    /\ UNCHANGED << rconVars, frameVars, playVars >>

\* detect_biome, and the two tests main makes of its result; the record of
\* the scan is dropped as main goes on.
detect_biome ==
    /\ h_pc = "biome"
    /\ \E biome \in { "None", "ocean", "plains" } :
          h_pc' = IF biome = "None" \/ (biome = "ocean" /\ y > WATER_LEVEL)
                  THEN "loop" ELSE "flavor"
    /\ seen' = NoTests /\ ntests' = 0
    /\ UNCHANGED << list_reply, online_players, tries, x, y, z, location, loaded,
                    chest, detected, removed, tape_i, waits, cmds >>
    /\ UNCHANGED << rconVars, frameVars, playVars >>

\* gpt_completion returns the flavor text, or raises.
gpt_completion ==
    /\ h_pc = "flavor"
    /\ \E ok \in BOOLEAN : h_pc' = IF ok THEN "place" ELSE "error"
    /\ UNCHANGED << list_reply, online_players, tries, x, y, z, location, loaded, seen,
                    ntests, chest, detected, removed, tape_i, waits, cmds >>
    /\ UNCHANGED << rconVars, frameVars, playVars >>

\* place_treasure: the server sets the block when the position is loaded; the
\* reply is not looked at.
place_treasure ==
    /\ h_pc = "place"
    /\ cmds' = Append(cmds, Cmd("setblock", "minecraft:chest", 0))
    /\ chest' = IF loaded THEN "full" ELSE chest
    /\ h_pc' = "hello"
    /\ UNCHANGED << list_reply, online_players, tries, x, y, z, location, loaded, seen,
                    ntests, detected, removed, tape_i, waits >>
    /\ UNCHANGED << rconVars, frameVars, playVars >>

\* announce(rcon, ...) at h_pc = at, and main goes on at h_pc = to.
announce(at, text, n, to) ==
    /\ h_pc = at
    /\ cmds' = Append(cmds, Cmd("tellraw", text, n))
    /\ h_pc' = to

\* The two announcements after the chest is placed.
announce_hunt ==
    /\ \/ announce("hello", "TREASURE HUNT!", 0, "story")
       \/ announce("story", "flavor_text", 0, "sleep10")
    /\ UNCHANGED << list_reply, online_players, tries, x, y, z, location, loaded, seen,
                    ntests, chest, detected, removed, tape_i, waits >>
    /\ UNCHANGED << rconVars, frameVars, playVars >>

\* time.sleep(10)
sleep_10 ==
    /\ h_pc = "sleep10"
    /\ h_pc' = "warn"
    /\ UNCHANGED << list_reply, online_players, tries, x, y, z, location, loaded, seen,
                    ntests, chest, detected, removed, tape_i, waits, cmds >>
    /\ UNCHANGED << rconVars, frameVars, playVars >>

\* "... will disappear in 10 minutes!", and the loop over minute_tape begins.
announce_10 ==
    /\ announce("warn", "disappear in", 10, "tape")
    /\ tape_i' = 1
    /\ UNCHANGED << list_reply, online_players, tries, x, y, z, location, loaded, seen,
                    ntests, chest, detected, removed, waits >>
    /\ UNCHANGED << rconVars, frameVars, playVars >>

\* time.sleep(60) at the head of the loop body, and the one of its else.
sleep_60 ==
    /\ \/ h_pc = "tape" /\ h_pc' = "gone"
       \/ h_pc = "else" /\ h_pc' = "remove"
    /\ waits' = waits + 1
    /\ UNCHANGED << list_reply, online_players, tries, x, y, z, location, loaded, seen,
                    ntests, chest, detected, removed, tape_i, cmds >>
    /\ UNCHANGED << rconVars, frameVars, playVars >>

\* treasure_gone(rcon, x, y, z) on a loaded position: the chest tests as
\* empty, or there is no chest.
treasure_gone == chest = "empty" \/ chest = "none"

\* The loop body after its sleep: treasure_gone, then the announcement of
\* the emptied chest and break, or the alert of minute_tape.
tape_step ==
    /\ h_pc = "gone"
    /\ IF ~loaded
       THEN h_pc' = "error" /\ UNCHANGED << cmds, tape_i >>
       ELSE IF treasure_gone
       THEN /\ cmds' = Append(cmds, Cmd("tellraw", "emptied", 0))
            /\ h_pc' = "remove"
            /\ UNCHANGED tape_i
       ELSE /\ cmds' = IF minute_tape[tape_i] = 0 THEN cmds
                       ELSE Append(cmds, Cmd("tellraw", "disappear in", minute_tape[tape_i]))
            /\ tape_i' = tape_i + 1
            /\ h_pc' = IF tape_i = Len(minute_tape) THEN "else" ELSE "tape"
    /\ UNCHANGED << list_reply, online_players, tries, x, y, z, location, loaded, seen,
                    ntests, chest, detected, removed, waits >>
    /\ UNCHANGED << rconVars, frameVars, playVars >>

\* The test after the loop, going on as if it had failed.
remove_keep ==
    /\ h_pc = "remove"
    /\ IF ~loaded
       THEN h_pc' = "error" /\ UNCHANGED detected
       ELSE /\ detected' = IF chest # "none" THEN "yes" ELSE "no"
            /\ h_pc' = "complete"
    /\ UNCHANGED << list_reply, online_players, tries, x, y, z, location, loaded, seen,
                    ntests, chest, removed, tape_i, waits, cmds >>
    /\ UNCHANGED << rconVars, frameVars, playVars >>

\* if test_for_block(rcon, x, y, z, "minecraft:chest") after the loop.
remove ==
    /\ h_pc = "remove"
    /\ IF ~loaded
       THEN h_pc' = "error" /\ UNCHANGED detected
       ELSE /\ detected' = IF chest # "none" THEN "yes" ELSE "no"
            /\ h_pc' = IF chest # "none" THEN "setair" ELSE "complete"
    /\ UNCHANGED << list_reply, online_players, tries, x, y, z, location, loaded, seen,
                    ntests, chest, removed, tape_i, waits, cmds >>
    /\ UNCHANGED << rconVars, frameVars, playVars >>

\* rcon.command(f"setblock {x} {y} {z} minecraft:air"): the server sets the
\* block when the position is loaded; the reply is not looked at.
set_air ==
    /\ h_pc = "setair"
    /\ cmds' = Append(cmds, Cmd("setblock", "minecraft:air", 0))
    /\ removed' = IF loaded THEN chest ELSE removed
    /\ chest' = IF loaded THEN "none" ELSE chest
    /\ h_pc' = "vanish"
    /\ UNCHANGED << list_reply, online_players, tries, x, y, z, location, loaded, seen,
                    ntests, detected, tape_i, waits >>
    /\ UNCHANGED << rconVars, frameVars, playVars >>

\* if not treasure_gone(rcon, x, y, z): announce that the chest vanishes.
vanish ==
    /\ h_pc = "vanish"
    /\ IF ~loaded
       THEN h_pc' = "error" /\ UNCHANGED cmds
       ELSE /\ cmds' = IF ~treasure_gone
                       THEN Append(cmds, Cmd("tellraw", "vanishes", 0)) ELSE cmds
            /\ h_pc' = "complete"
    /\ UNCHANGED << list_reply, online_players, tries, x, y, z, location, loaded, seen,
                    ntests, chest, detected, removed, tape_i, waits >>
    /\ UNCHANGED << rconVars, frameVars, playVars >>

\* Where main is about to send a command to the server.
CommandPcs ==
    { "list", "first", "down", "up", "biome", "place", "hello", "story", "warn",
      "gone", "remove", "setair", "vanish" }

\* rcon.command raises, or test_for_block does on a reply it does not know.
command_raises ==
    /\ h_pc \in CommandPcs
    /\ h_pc' = "error"
    /\ UNCHANGED << list_reply, online_players, tries, x, y, z, location, loaded, seen,
                    ntests, chest, detected, removed, tape_i, waits, cmds >>
    /\ UNCHANGED << rconVars, frameVars, playVars >>

\* Where the hunt is on: the chest was asked for and main has not yet ended.
HuntPcs == { "hello", "story", "sleep10", "warn", "tape", "gone", "else", "remove",
             "setair", "vanish" }

\* Where main waits for seconds or minutes: detect_biome (a second for each
\* biome), gpt_completion, time.sleep(10) and time.sleep(60).
WaitPcs == { "biome", "flavor", "sleep10", "tape", "else" }

\* A player takes the treasure out of the chest.
TakeTreasure ==
    /\ h_pc \in HuntPcs /\ chest = "full"
    /\ chest' = "empty"
    /\ UNCHANGED << h_pc, list_reply, online_players, tries, x, y, z, location, loaded, seen,
                    ntests, detected, removed, tape_i, waits, cmds >>
    /\ UNCHANGED << rconVars, frameVars, playVars >>

\* A player breaks the chest.
BreakChest ==
    /\ h_pc \in HuntPcs /\ chest # "none"
    /\ chest' = "none"
    /\ UNCHANGED << h_pc, list_reply, online_players, tries, x, y, z, location, loaded, seen,
                    ntests, detected, removed, tape_i, waits, cmds >>
    /\ UNCHANGED << rconVars, frameVars, playVars >>

\* The position is unloaded, or loaded again, as the players move: this
\* happens while main waits, not between two commands it sends in a row.
LoadUnload ==
    /\ h_pc \in WaitPcs
    /\ loaded' = ~loaded
    /\ UNCHANGED << h_pc, list_reply, online_players, tries, x, y, z, location, seen,
                    ntests, chest, detected, removed, tape_i, waits, cmds >>
    /\ UNCHANGED << rconVars, frameVars, playVars >>

HuntNext ==
    \/ main_start \/ list_players \/ find_treasure_spot \/ not_found
    \/ scan_first \/ scan_down \/ scan_up
    \/ detect_biome \/ gpt_completion \/ place_treasure \/ announce_hunt
    \/ sleep_10 \/ announce_10 \/ sleep_60 \/ tape_step
    \/ remove \/ set_air \/ vanish \/ command_raises
    \/ TakeTreasure \/ BreakChest \/ LoadUnload

\* --------------------------------------------------------- specifications
ClientStep == Login \/ Recv \/ RecvEOF \/ RecvReset \/ Select \/ CommandReturn

Next ==
    \/ Enter \/ Command \/ Disconnect \/ Exit
    \/ Login \/ Recv \/ RecvEOF \/ RecvReset \/ Select \/ CommandReturn
    \/ Tick
    \/ PeerReply \/ PeerFlood \/ PeerReset \/ Deliver

Init == RconInit /\ FrameOff /\ PlayInit /\ HuntOff

Spec == Init /\ [][Next]_vars

\* One frame by itself.
FrameStart == RconInit /\ FrameInit /\ PlayInit /\ HuntOff
FrameSpec == FrameStart /\ [][FrameNext]_vars

\* calculate_play_time by itself.
PlayStart == RconInit /\ FrameOff /\ PlayInit /\ HuntOff
PlaySpec == PlayStart /\ [][PlayNext]_vars

\* main of treasure_hunt.py by itself.
HuntStart == RconInit /\ FrameOff /\ PlayInit /\ HuntInit
HuntSpec == HuntStart /\ [][HuntNext]_vars

\* The process runs while it has a step to take, and time passes.
FairSpec == Spec /\ WF_vars(ClientStep) /\ WF_vars(Tick)

\* ------------------------------------------------------------- the claims
InRead == pc \in {"read_len", "read_body"}

\* The empty packet of PeerFlood is waiting at the poll.
Flooded ==
    pc = "select" /\ rbuf = PktBytes([id |-> 0, pad |-> << 0, 0 >>, payload |-> << >>])

\* C1: a command() that returns, returns the whole of the peer's reply to its
\* request (all of whose packets are well-terminated and carry id 0), however
\* the packets arrive relative to the readiness poll.
C1_ReturnsWholeResponse ==
    (pc = "idle" /\ op = "command" /\ result.st = "return"
        /\ resp.req = nreq /\ ~resp.badpad /\ ~resp.idm1)
    => result.val = decode(resp.data).s

\* C2: the string a command() returns holds only characters of the peer's
\* reply to that call's own request.
C2_OnlyOwnReply ==
    (pc = "idle" /\ op = "command" /\ result.st = "return")
    => \A i \in 1..Len(result.val) : ReqOf(result.val[i]) = nreq

\* C3: when connect() raises the login failure, the socket is closed and the
\* session holds none.
C3_LoginFailureCloses ==
    (pc = "idle" /\ op = "connect" /\ result.st = "raise" /\ result.err = "Login failed")
    => (socket = "None" /\ fd = "closed")

\* C4: after command() raised a protocol error (padding, id -1, timeout) the
\* session holds no socket.
C4_ErrorDisconnects ==
    (pc = "idle" /\ op = "command" /\ result.st = "raise"
        /\ result.err \in {"Incorrect padding", "Login failed", "Connection timeout error"})
    => socket = "None"

\* C5: once control has left the with block that connect() had entered, the
\* session holds no socket and the socket is closed.
C5_ScopedRelease ==
    block = "left" => (socket = "None" /\ fd = "closed")

\* C5 witness: the body was left by an exception after a command had been sent.
C5_Witness ==
    block = "left" /\ exitHow = "raise" /\ op = "command" /\ result.st = "raise" /\ nreq >= 2

\* C6: a read that finds the peer's end closed, with nothing left to read, ends
\* the call with a connection error, never with the timeout.
C6_PeerCloseIsConnectionError ==
    [][(InRead /\ peer = "fin" /\ rbuf = << >> /\ pc' = "idle")
        => (result'.st = "raise"
            /\ result'.err \in {"ConnectionResetError", "ConnectionRefusedError"})]_vars

\* C7: while _read waits the alarm is pending and was armed with the timeout
\* when the read began; bytes that come in part are kept, without an error and
\* without a new alarm; the second that uses the timeout up with the read
\* still short of bytes raises the timeout error; and no read goes on forever.
C7_ReadStep ==
    /\ (InRead' /\ pc' # pc) => alarm' = Timeout
    /\ (InRead' /\ pc' = pc) =>
          /\ alarm' \in {alarm, alarm - 1} /\ alarm' >= 1
          /\ length' = length
          /\ \E k \in 0..Len(rbuf) : data' = data \o SubSeq(rbuf, 1, k)
    /\ (InRead /\ alarm = 1 /\ alarm' = 0 /\ rbuf' = rbuf) =>
          (pc' = "idle" /\ result' = Raised("Connection timeout error"))

C7_ReadTimesOut ==
    /\ [][C7_ReadStep]_vars
    /\ InRead ~> ~InRead

\* C7 witness: a read holds part of a packet body and one second is left.
C7_Witness ==
    pc = "read_body" /\ Len(data) > 0 /\ Len(data) < length /\ alarm = 1 /\ rbuf = << >>

\* C8 as stated: every call ends.
C8_CallEnds == (pc # "idle") ~> (pc = "idle")

\* C8 as amended: every call ends, or the peer has made one more packet
\* available at the poll.
C8_CallEndsUnlessFlooded == (pc # "idle") ~> (pc = "idle" \/ Flooded)

\* C8 witness: a command() polls and finds the packet the peer has just made
\* available.
C8_Witness == Flooded /\ op = "command" /\ result.st = "none"

\* C9: a call in whose reply a packet has a bad terminator returns no string.
C9_BadPaddingNeverReturns ==
    (pc = "idle" /\ result.st = "return" /\ resp.req = nreq) => ~resp.badpad

\* C10: a call in whose reply a well-terminated packet has correlation id -1
\* returns no string.
C10_IdMinusOneNeverReturns ==
    (pc = "idle" /\ result.st = "return" /\ resp.req = nreq) => ~resp.idm1

NotConnected == Raised("Must connect before sending data")

\* C11: a command() made while the session holds no socket ends at once with
\* the not-connected error; nothing is sent, nothing is read, no alarm is
\* armed, and the session and the connection are as they were.
C11_NotConnectedNoNetwork ==
    [][(pc = "idle" /\ socket = "None" /\ op' = "command"
            /\ (op # "command" \/ result' # result \/ pc' # pc))
        => (pc' = "idle" /\ result' = NotConnected
            /\ UNCHANGED << socket, fd, nreq, nconn, nclose, lastSent, alarm, netVars >>)]_vars

\* C11 witness: command() on a session that was connected and disconnected.
C11_Witness ==
    pc = "idle" /\ op = "command" /\ result = NotConnected /\ fd = "closed" /\ nreq >= 1

\* C12: the socket is closed only while the session holds it, once, and the
\* session then holds none; a step that drops the socket raises nothing; and
\* on a session without a socket nothing is closed and nothing changes.
C12_Step ==
    /\ (nclose' # nclose) => (socket # "None" /\ fd = "open" /\ nclose' = nclose + 1)
    /\ (socket # "None" /\ socket' = "None") =>
          (fd' = "closed" /\ nclose' = nclose + 1 /\ pc' = pc /\ result' = result)
    /\ (socket = "None" /\ socket' = "None") => UNCHANGED << fd, nclose >>

C12_DisconnectIdempotent ==
    /\ [](nclose <= nconn /\ (socket = "None" => fd # "open"))
    /\ [][C12_Step]_vars

\* C12 witness: disconnect() was called in the with body, which __exit__ will
\* follow with another call.
C12_Witness ==
    block = "in" /\ socket = "None" /\ fd = "closed" /\ nclose = 1

\* The number of bytes of a string in UTF-8.
RECURSIVE ByteLen(_)
ByteLen(str) ==
    IF str = << >> THEN 0
    ELSE (IF Head(str) < 128 THEN 1 ELSE IF Head(str) < 2048 THEN 2
          ELSE IF Head(str) < 65536 THEN 3 ELSE 4) + ByteLen(Tail(str))

\* C13: the request written has a length field of 4 + 4 + payload bytes + 2,
\* which is the number of bytes after the field; its id is 0, its kind the
\* LOGIN or COMMAND kind asked for, its last two bytes are null; and read back
\* by the response parsing it passes the checks and gives the payload.
C13_FrameRoundTrip ==
    /\ f_pc \in {"sent", "parsed"} =>
          /\ unpack_i(SubSeq(f_sent, 1, 4)) = 4 + 4 + ByteLen(f_data) + 2
          /\ unpack_i(SubSeq(f_sent, 1, 4)) = Len(f_sent) - 4
          /\ unpack_i(SubSeq(f_sent, 5, 8)) = 0
          /\ unpack_i(SubSeq(f_sent, 9, 12)) = f_type /\ f_type \in {2, 3}
          /\ SubSeq(f_sent, Len(f_sent) - 1, Len(f_sent)) = << 0, 0 >>
    /\ f_pc = "parsed" =>
          /\ f_back.in_length = Len(f_sent) - 4 /\ f_back.rest = 0
          /\ f_back.in_id = 0 /\ f_back.in_type = f_type
          /\ f_back.in_padding = << 0, 0 >>
          /\ f_back.err = ""
          /\ f_back.in_data_partial = f_data

\* C13 witness: a LOGIN frame with characters of two and three bytes has been
\* written and read back.
C13_Witness ==
    f_pc = "parsed" /\ f_type = 3 /\ Len(f_data) >= 2 /\ f_data[1] = 233 /\ f_data[2] = 8364

\* The last event of player p among the first n events, 0 when there is none.
RECURSIVE LastOf(_, _, _)
LastOf(ev, p, n) ==
    IF n = 0 THEN 0 ELSE IF ev[n].player = p THEN n ELSE LastOf(ev, p, n - 1)

\* The sum of the sessions of player p among the first n events: event i ends
\* a session when it is a 'left' and p's event before it is a 'joined'.
RECURSIVE Sessions(_, _, _)
Sessions(ev, p, n) ==
    IF n = 0 THEN 0
    ELSE LET j == LastOf(ev, p, n - 1)
         IN  Sessions(ev, p, n - 1)
             + (IF ev[n].player = p /\ ev[n].action = "left" /\ j > 0 /\ ev[j].action = "joined"
                THEN ev[n].t - ev[j].t ELSE 0)

\* A session of player p has ended among the events.
HasSession(ev, p) ==
    \E n \in 1..Len(ev) :
        /\ ev[n].player = p /\ ev[n].action = "left"
        /\ LastOf(ev, p, n - 1) > 0 /\ ev[LastOf(ev, p, n - 1)].action = "joined"

SpotFound == h_pc = "biome"

Abs(n) == IF n < 0 THEN -n ELSE n

\* C18: a location find_treasure_spot returns has x and z less than
\* TREASURE_MAX_DIST from 0 and not within TREASURE_DEAD_ZONE of it, and y
\* between TREASURE_MIN_HEIGHT and TREASURE_MAX_HEIGHT.
C18_SpotInRange ==
    SpotFound =>
        /\ Abs(location[1]) < TREASURE_MAX_DIST /\ Abs(location[1]) >= TREASURE_DEAD_ZONE
        /\ Abs(location[3]) < TREASURE_MAX_DIST /\ Abs(location[3]) >= TREASURE_DEAD_ZONE
        /\ location[2] \in TREASURE_MIN_HEIGHT..TREASURE_MAX_HEIGHT

\* The heights find_treasure_spot does return: none at or below -TREASURE_MIN_HEIGHT.
ReturnedHeights ==
    SpotFound => location[2] \in (-TREASURE_MIN_HEIGHT + 1)..TREASURE_MAX_HEIGHT

\* C19: when the reply to list reports no player online, main ends without
\* a search and without a setblock or tellraw command.
C19_NoPlayersNoHunt ==
    list_reply \in ZeroReplies => (h_pc \in { "noplayers", "error" } /\ tries = 0 /\ cmds = << >>)

\* The most block tests one call of find_treasure_spot makes.
MaxScanTests == TREASURE_MAX_HEIGHT - (-TREASURE_MIN_HEIGHT) + 2

\* C20: with the world unchanged during the scan, a location that
\* find_treasure_spot returns was tested as air with the block below it
\* tested as not air; a call makes at most MaxScanTests tests; a position
\* that is not loaded gives None.
C20_SurfaceSpot ==
    /\ SpotFound =>
          /\ location = << x, y, z >>
          /\ y \in DOMAIN seen /\ seen[y]
          /\ (y - 1) \in DOMAIN seen /\ ~seen[y - 1]
    /\ ntests <= MaxScanTests
    /\ (h_pc = "loop" /\ ntests > 0 /\ ~loaded) => location = "None"

\* A location returned after a scan of three tests or more.
C20_Witness == SpotFound /\ ntests >= 3

\* A position that is not loaded has given None.
C20_WitnessNotLoaded == h_pc = "loop" /\ ntests > 0 /\ ~loaded


\* A command with this text was issued.
Issued(text) == \E i \in DOMAIN cmds : cmds[i].text = text

\* C14: when a hunt that asked for the chest completes, there is no chest
\* at the coordinates, and setblock ... minecraft:air was issued exactly when
\* the chest was still detected after the countdown or the early end.
C14_ChestGoneAtCompletion ==
    (h_pc = "complete" /\ Issued("minecraft:chest")) =>
        /\ chest = "none"
        /\ (detected = "yes") <=> Issued("minecraft:air")

\* The countdown ran out with the treasure in the chest, and the hunt completed.
C14_Witness ==
    /\ h_pc = "complete" /\ waits = Len(minute_tape) + 1
    /\ detected = "yes" /\ removed = "full"

\* The treasure was taken early, and the hunt completed.
C14_WitnessEarly ==
    /\ h_pc = "complete" /\ Issued("emptied") /\ waits = 1
    /\ detected = "yes" /\ removed = "empty"

\* C16: in a run whose treasure is not taken before the countdown ends, each
\* "disappear in N minutes" announcement is made exactly N one-minute waits
\* before the removal step.
C16_WarningsOnTime ==
    (h_pc = "remove" /\ ~Issued("emptied")) =>
        \A i \in DOMAIN cmds : cmds[i].n > 0 => waits - cmds[i].at = cmds[i].n

\* The same for the announcements made from minute_tape.
TapeWarningsOnTime ==
    (h_pc = "remove" /\ ~Issued("emptied")) =>
        \A i \in DOMAIN cmds :
            (cmds[i].n > 0 /\ cmds[i].at > 0) => waits - cmds[i].at = cmds[i].n

\* C17: the hunt announces that the chest vanishes exactly when the chest
\* it removed still held the treasure.
C17_VanishIffTreasureThere ==
    h_pc = "complete" => ((removed = "full") <=> Issued("vanishes"))

\* The announcement is never made.
NeverVanishes == ~Issued("vanishes")


\* The timeout error is raised only in a read.
TimeoutOnlyInRead ==
    (result' # result /\ result' = Raised("Connection timeout error")) => InRead

\* C21: the alarm is pending only while a read is in progress, and so the
\* timeout error is never raised outside a read.
C21_AlarmOnlyInRead ==
    [](~InRead => alarm = 0) /\ [][TimeoutOnlyInRead]_vars

\* A read that returned its data has left no alarm pending.
AlarmOffAfterReturn ==
    (~InRead /\ alarm > 0) => result = Raised("ConnectionResetError")

====
